---- MODULE Spec2Model ----
(***************************************************************************)
(* Model of ls1024a-clkparser (src/src/main.rs): decoding of a 1024-byte   *)
(* dump of the LS1024A CLKRESET register block into PLL rates, clock       *)
(* generator rates and AXI gate states.                                    *)
(*                                                                         *)
(* Two specifications:                                                     *)
(*   Spec    one run of main() from the point where the dump is loaded     *)
(*           and the crystal rate is validated (main.rs:112) to the exit;  *)
(*   SpecFn  the four decoding functions called in isolation on arguments  *)
(*           drawn from bounded sets.                                      *)
(*                                                                         *)
(* Rates are u32 values and the PLL arithmetic runs in u64; both exceed    *)
(* the range of the model checker's integers, so a number is kept as a     *)
(* pair <<hi, lo>> that stands for hi * 2^15 + lo with 0 <= lo < 2^15.     *)
(***************************************************************************)
EXTENDS Integers, Sequences, FiniteSets, TLC

\* ------------------------------------------------------------------------
\* Wide numbers
\* ------------------------------------------------------------------------

LIMB == 2^15

\* the wide number of a small non-negative integer
W(n) == <<n \div LIMB, n % LIMB>>

W0 == W(0)

\* w * y for a wide w and an integer 0 <= y < 2^30 (exact while w[1]*y < 2^31)
WMul(w, y) ==
    LET y1 == y \div LIMB
        y0 == y % LIMB
        low == w[2] * y0
    IN  <<w[1] * y + w[2] * y1 + (low \div LIMB), low % LIMB>>

\* floor(w / d) for an integer 0 < d < 2^15
WDiv(w, d) == <<w[1] \div d, ((w[1] % d) * LIMB + w[2]) \div d>>

\* w + n for an integer 0 <= n < 2^15
WAdd(w, n) == <<w[1] + ((w[2] + n) \div LIMB), (w[2] + n) % LIMB>>

\* w < 2^32
FitsU32(w) == w[1] < 2^17

\* ------------------------------------------------------------------------
\* Outcomes of a call: a returned value or a panic
\* ------------------------------------------------------------------------

Ok(w) == [st |-> "ok", rate |-> w]

Panic(why) == [st |-> why, rate |-> W0]

\* u32::try_from(x).unwrap(): the value when it fits 32 bits, a panic otherwise
u32_try_from_wrapping(w) == Ok(<<w[1] % (2^17), w[2]>>)

u32_try_from(w) == IF FitsU32(w) THEN Ok(w) ELSE Panic("overflow")

\* Rust's integer division: a panic on a zero divisor
checked_div(w, d) == IF d = 0 THEN Panic("divzero") ELSE Ok(WDiv(w, d))

\* buf[off] of a slice held as a sequence
At(buf, off) == buf[off + 1]

\* (byte & (1 << bit)) != 0
Bit(byte, bit) == (byte \div (2^bit)) % 2 = 1

\* ------------------------------------------------------------------------
\* pll_simple_rate
\* ------------------------------------------------------------------------

SIMPLE_LEN == 32

DITHER_LEN == 48

simple_m_9bit(buf) == At(buf, 0) + (At(buf, 4) % 2) * 256

simple_m(buf) == At(buf, 0) + (At(buf, 4) % 4) * 256

pll_reset(ctl) == Bit(ctl, 0)

pll_bypass_bit3(ctl) == Bit(ctl, 3)

pll_bypass(ctl) == Bit(ctl, 4)

pll_simple_rate_reset_first(buf, inrate, has_outdiv) ==
    IF Len(buf) # SIMPLE_LEN THEN Panic("shape")
    ELSE
    LET m == simple_m(buf)
        p == At(buf, 8) % 64
        s == At(buf, 12) % 8
        ctl == At(buf, 16)
        reset == pll_reset(ctl)
        bypass == pll_bypass(ctl)
        quot == checked_div(WMul(inrate, m), p * (2^s))
        rate == IF quot.st = "ok" THEN u32_try_from(quot.rate) ELSE quot
        outdiv == At(buf, 28) % 32
        outbypass == Bit(At(buf, 28), 7)
    IN  IF reset THEN Ok(W0)
        ELSE IF bypass THEN Ok(inrate)
        ELSE IF rate.st # "ok" THEN rate
        ELSE IF has_outdiv
             THEN IF outbypass THEN rate ELSE checked_div(rate.rate, outdiv)
             ELSE rate

pll_simple_rate(buf, inrate, has_outdiv) ==
    IF Len(buf) # SIMPLE_LEN THEN Panic("shape")
    ELSE
    LET m == simple_m(buf)
        p == At(buf, 8) % 64
        s == At(buf, 12) % 8
        ctl == At(buf, 16)
        reset == pll_reset(ctl)
        bypass == pll_bypass(ctl)
        quot == checked_div(WMul(inrate, m), p * (2^s))
        rate == IF quot.st = "ok" THEN u32_try_from(quot.rate) ELSE quot
        outdiv == At(buf, 28) % 32
        outbypass == Bit(At(buf, 28), 7)
    IN  IF bypass THEN Ok(inrate)
        ELSE IF reset /\ ~bypass THEN Ok(W0)
        ELSE IF rate.st # "ok" THEN rate
        ELSE IF has_outdiv
             THEN IF outbypass THEN rate ELSE checked_div(rate.rate, outdiv)
             ELSE rate

\* ------------------------------------------------------------------------
\* pll_dither_rate
\* ------------------------------------------------------------------------

dither_round(q) == WDiv(WAdd(q, 511), 1024)

pll_dither_rate(buf, inrate) ==
    IF Len(buf) # DITHER_LEN THEN Panic("shape")
    ELSE
    LET m == At(buf, 0) + (At(buf, 4) % 2) * 256
        p == At(buf, 8) % 64
        s == At(buf, 12) % 8
        k == At(buf, 32) + (At(buf, 36) % 16) * 256
        ctl == At(buf, 16)
        reset == pll_reset(ctl)
        bypass == pll_bypass(ctl)
        num == WMul(inrate, m * 1024 + k)
        denom == p * (2^s)
        quot == checked_div(num, denom)
    IN  IF bypass THEN Ok(inrate)
        ELSE IF reset /\ ~bypass THEN Ok(W0)
        ELSE IF quot.st # "ok" THEN quot
        ELSE u32_try_from(dither_round(quot.rate))

\* ------------------------------------------------------------------------
\* clkgen_rate, axigate_is_on
\* ------------------------------------------------------------------------

None == [some |-> FALSE, v |-> 0]

Some(b) == [some |-> TRUE, v |-> b]

\* the two warnings of clkgen_rate, as lines of stderr
WarnMux(mux) == <<"Warning: mux is outside known range.", mux>>

WarnDiv == <<"Warning: divider value is less than 2.">>

clkgen_mux_2bit(ctl) == (ctl \div 2) % 4

clkgen_mux(ctl) == (ctl \div 2) % 8

\* the result carries the warnings the call wrote to stderr
clkgen_rate_div_lt_1(ctl, divctl, srcs, bypass) ==
    LET on == (ctl % 2) = 1
        mux == clkgen_mux(ctl)
        muxbad == mux >= Len(srcs)
        inrate == IF muxbad THEN W0 ELSE At(srcs, mux)
        w1 == IF muxbad THEN <<WarnMux(mux)>> ELSE <<>>
        div == divctl.v % 32
        quot == checked_div(inrate, div)
    IN  IF divctl.some
        THEN IF bypass THEN [st |-> "ok", on |-> on, rate |-> inrate, warn |-> w1]
             ELSE IF div < 1
                  THEN [st |-> "ok", on |-> on, rate |-> W0,
                        warn |-> w1 \o <<WarnDiv>>]
             ELSE [st |-> quot.st, on |-> on, rate |-> quot.rate, warn |-> w1]
        ELSE [st |-> "ok", on |-> on, rate |-> inrate, warn |-> w1]

clkgen_rate(ctl, divctl, srcs, bypass) ==
    LET on == (ctl % 2) = 1
        mux == clkgen_mux(ctl)
        muxbad == mux >= Len(srcs)
        inrate == IF muxbad THEN W0 ELSE At(srcs, mux)
        w1 == IF muxbad THEN <<WarnMux(mux)>> ELSE <<>>
        div == divctl.v % 32
        quot == checked_div(inrate, div)
    IN  IF divctl.some
        THEN IF bypass THEN [st |-> "ok", on |-> on, rate |-> inrate, warn |-> w1]
             ELSE IF div < 2
                  THEN [st |-> "ok", on |-> on, rate |-> W0,
                        warn |-> w1 \o <<WarnDiv>>]
             ELSE [st |-> quot.st, on |-> on, rate |-> quot.rate, warn |-> w1]
        ELSE [st |-> "ok", on |-> on, rate |-> inrate, warn |-> w1]

axigate_is_on(ctl, bit) == Bit(ctl, bit)

\* ------------------------------------------------------------------------
\* State
\* ------------------------------------------------------------------------

VARIABLES
    buf,        \* main: the 0x400 bytes read from the dump, offset -> byte
    xtal,       \* main: the crystal rate in Hz
    pc,         \* main: the position in main()
    i,          \* main: the index of the running loop
    genplls,    \* main: generated PLL rates, slot -> rate
    outplls,    \* main: PLL output rates, slot -> rate
    clkgens,    \* main: per clock generator, the decoded (on, rate)
    axigates,   \* main: per AXI gate, the decoded on/off
    stderr,     \* main: the lines written to stderr
    stdout,     \* main: the report written to stdout
    exit,       \* main: how the process ended ("none" while running)
    call,       \* SpecFn: the function called last and its arguments
    ret         \* SpecFn: what that call returned

mainvars == <<buf, xtal, pc, i, genplls, outplls, clkgens, axigates,
              stderr, stdout, exit>>

vars == <<buf, xtal, pc, i, genplls, outplls, clkgens, axigates,
          stderr, stdout, exit, call, ret>>

\* ------------------------------------------------------------------------
\* Register layout
\* ------------------------------------------------------------------------

BUF_LEN == 1024

NPLLS == 4

OFF_GLOBAL == 52

OFF_PLLMASK == 56

OFF_PLL0 == 448

OFF_PLL3 == 544

\* buf[o..(o + n)] as a slice
Slice(b, o, n) == [j \in 1..n |-> b[o + j - 1]]

\* name, static bypass, offset of the control byte, offset of the divider byte
ClkgenTable == <<
    <<"axi",       FALSE,  64,  76>>,
    <<"a9dp",      FALSE, 128, 132>>,
    <<"l2cc",      FALSE, 144, 148>>,
    <<"tpi",       FALSE, 160, 164>>,
    <<"csys",      FALSE, 176, 180>>,
    <<"extphy0",   FALSE, 192, 196>>,
    <<"extphy1",   FALSE, 208, 212>>,
    <<"extphy2",   FALSE, 224, 228>>,
    <<"ddr",       FALSE, 240, 244>>,
    <<"pfe",       FALSE, 256, 260>>,
    <<"ipsec",     FALSE, 272, 276>>,
    <<"dect",      FALSE, 288, 292>>,
    <<"gemtx",     FALSE, 304, 308>>,
    <<"tdmntg",    FALSE, 320, 324>>,
    <<"tsuntg",    FALSE, 336, 340>>,
    <<"sata_pmu",  FALSE, 352, 356>>,
    <<"sata_oob",  FALSE, 368, 372>>,
    <<"sata_occ",  FALSE, 384, 388>>,
    <<"pcie_occ",  FALSE, 400, 404>>,
    <<"sgmii_occ", FALSE, 416, 420>> >>

NGATES == Len(ClkgenTable)

\* name, offset of the control byte, bit
AxigateTable == <<
    <<"0_4", 64, 4>>, <<"dpi_cie", 64, 5>>, <<"dpi_decomp", 64, 6>>,
    <<"0_7", 64, 7>>,
    <<"dus", 68, 0>>, <<"ipsec_eape", 68, 1>>, <<"ipsec_spacc", 68, 2>>,
    <<"pfe_sys", 68, 3>>, <<"tdm", 68, 4>>, <<"i2cspi", 68, 5>>,
    <<"uart", 68, 6>>, <<"rtc", 68, 7>>,
    <<"pcie0", 72, 0>>, <<"pcie1", 72, 1>>, <<"sata", 72, 2>>,
    <<"usb0", 72, 3>>, <<"usb1", 72, 4>>, <<"2_5", 72, 5>>,
    <<"2_6", 72, 6>>, <<"2_7", 72, 7>> >>

\* ------------------------------------------------------------------------
\* Inputs
\* ------------------------------------------------------------------------

\* a 0x20-byte simple PLL region, zero but for the bytes the decoder reads
SimpleRegion(b0, b4, b8, bc, b10, b1c) ==
    [j \in 1..SIMPLE_LEN |->
        CASE j = 1 -> b0 [] j = 5 -> b4 [] j = 9 -> b8 [] j = 13 -> bc
          [] j = 17 -> b10 [] j = 29 -> b1c [] OTHER -> 0]

\* a 0x30-byte dithering PLL region
DitherRegion(b0, b4, b8, bc, b10, b20, b24) ==
    [j \in 1..DITHER_LEN |->
        CASE j = 1 -> b0 [] j = 5 -> b4 [] j = 9 -> b8 [] j = 13 -> bc
          [] j = 17 -> b10 [] j = 33 -> b20 [] j = 37 -> b24 [] OTHER -> 0]

\* the crystal rates main() accepts, in Hz
XtalRates == {W(24 * 1000000), W(48 * 1000000)}

\* simple PLL regions of the dumps: bypassed (all other fields zero), a
\* usual setting (m=75, p=1, s=0, outdiv=2), all zero, held in reset, and
\* m=256, p=1, s=0
DumpSimpleRegions ==
    { SimpleRegion(0, 0, 0, 0, 16, 0),
      SimpleRegion(75, 0, 1, 0, 0, 2),
      SimpleRegion(0, 0, 0, 0, 0, 0),
      SimpleRegion(50, 0, 1, 1, 1, 0),
      SimpleRegion(0, 1, 1, 0, 0, 0) }

\* dithering PLL regions of the dumps: bypassed, m=50 k=1 p=1 s=0, all zero
DumpDitherRegions ==
    { DitherRegion(0, 0, 0, 0, 16, 0, 0),
      DitherRegion(50, 0, 1, 0, 0, 1, 0),
      DitherRegion(0, 0, 0, 0, 0, 0, 0) }

DumpPllMasks == {0, 5, 250}

DumpGlobals == {0, 1}

\* the gate bytes of the dumps follow one of the patterns 0..MaxPattern
MaxPattern == 1

PatCtl(k, g) == ((2 * k + 1) * g + k) % 256

PatDiv(k, g) == ((k + 1) * g + 2 * k) % 256

GateByte(k, o) ==
    IF o = 64 THEN PatCtl(k, 0)
    ELSE IF o = 76 THEN PatDiv(k, 0)
    ELSE IF o = 68 THEN (165 + k) % 256
    ELSE IF o = 72 THEN (31 * (k + 1)) % 256
    ELSE IF o >= 128 /\ o < 432 /\ o % 16 = 0 THEN PatCtl(k, (o - 128) \div 16 + 1)
    ELSE IF o >= 128 /\ o < 432 /\ o % 16 = 4 THEN PatDiv(k, (o - 128) \div 16 + 1)
    ELSE 0

MkBuf(r0, r1, r2, r3, g, mask, k) ==
    [o \in 0..(BUF_LEN - 1) |->
        IF o >= OFF_PLL0 /\ o < OFF_PLL0 + SIMPLE_LEN THEN r0[o - OFF_PLL0 + 1]
        ELSE IF o >= OFF_PLL0 + SIMPLE_LEN /\ o < OFF_PLL0 + 2 * SIMPLE_LEN
             THEN r1[o - OFF_PLL0 - SIMPLE_LEN + 1]
        ELSE IF o >= OFF_PLL0 + 2 * SIMPLE_LEN /\ o < OFF_PLL3
             THEN r2[o - OFF_PLL0 - 2 * SIMPLE_LEN + 1]
        ELSE IF o >= OFF_PLL3 /\ o < OFF_PLL3 + DITHER_LEN THEN r3[o - OFF_PLL3 + 1]
        ELSE IF o = OFF_GLOBAL THEN g
        ELSE IF o = OFF_PLLMASK THEN mask
        ELSE GateByte(k, o)]

ZeroBuf == [o \in 0..(BUF_LEN - 1) |-> 0]

NoCall == [fn |-> "none"]

NoRet == [st |-> "none"]

\* ------------------------------------------------------------------------
\* main()
\* ------------------------------------------------------------------------

\* the state at main.rs:112: arguments checked, dump read, nothing decoded
Init ==
    /\ \E r0 \in DumpSimpleRegions, r1 \in DumpSimpleRegions,
          r2 \in DumpSimpleRegions, r3 \in DumpDitherRegions,
          g \in DumpGlobals, mask \in DumpPllMasks, k \in 0..MaxPattern :
            buf = MkBuf(r0, r1, r2, r3, g, mask, k)
    /\ xtal \in XtalRates
    /\ pc = "pll"
    /\ i = 0
    /\ genplls = [n \in 0..(NPLLS - 1) |-> W0]
    /\ outplls = [n \in 0..(NPLLS - 1) |-> W0]
    /\ clkgens = [n \in 0..(NGATES - 1) |-> [on |-> FALSE, rate |-> W0]]
    /\ axigates = [n \in 0..(Len(AxigateTable) - 1) |-> FALSE]
    /\ stderr = <<>>
    /\ stdout = <<>>
    /\ exit = "none"
    /\ call = NoCall
    /\ ret = NoRet

\* a panic of the running thread: the process ends with the panic's message
Abort(why) ==
    /\ pc' = "panic"
    /\ exit' = why

\* one turn of the loop of main.rs:113-118
PllSimpleStep ==
    /\ pc = "pll"
    /\ i < 3
    /\ LET o == OFF_PLL0 + i * SIMPLE_LEN
           has_outdiv == i = 0 \/ i = 1
           r == pll_simple_rate(Slice(buf, o, SIMPLE_LEN), xtal, has_outdiv)
       IN  IF r.st = "ok"
           THEN /\ genplls' = [genplls EXCEPT ![i] = r.rate]
                /\ i' = i + 1
                /\ pc' = IF i + 1 < 3 THEN "pll" ELSE "dither"
                /\ exit' = exit
           ELSE /\ Abort(r.st)
                /\ UNCHANGED <<genplls, i>>
    /\ UNCHANGED <<buf, xtal, outplls, clkgens, axigates, stderr, stdout, call, ret>>

\* main.rs:119
PllDitherStep ==
    /\ pc = "dither"
    /\ LET r == pll_dither_rate(Slice(buf, OFF_PLL3, DITHER_LEN), xtal)
       IN  IF r.st = "ok"
           THEN /\ genplls' = [genplls EXCEPT ![3] = r.rate]
                /\ pc' = "outsel"
                /\ exit' = exit
           ELSE /\ Abort(r.st)
                /\ UNCHANGED genplls
    /\ UNCHANGED <<buf, xtal, i, outplls, clkgens, axigates, stderr, stdout, call, ret>>

pll_output_shifted(gen, crystal, pllmask, n) ==
    IF Bit(pllmask, n + 1) THEN crystal ELSE gen[n]

\* the body of the loop of main.rs:123-129 for slot n
pll_output(gen, crystal, pllmask, n) ==
    IF Bit(pllmask, n) THEN crystal ELSE gen[n]

\* main.rs:121-129
SelectOutputs ==
    /\ pc = "outsel"
    /\ outplls' = [n \in 0..(NPLLS - 1) |->
                      pll_output(genplls, xtal, buf[OFF_PLLMASK], n)]
    /\ pc' = "check"
    /\ UNCHANGED <<buf, xtal, i, genplls, clkgens, axigates, stderr, stdout,
                   exit, call, ret>>

\* main.rs:131-135
GlobalCheck ==
    /\ pc = "check"
    /\ IF Bit(buf[OFF_GLOBAL], 0)
       THEN /\ stderr' = stderr \o << <<"PLL global bypass bit is set!">>,
                 <<"I don't know what effects it has on the clock generators. I can't continue.">> >>
            /\ pc' = "exited"
            /\ exit' = "exit1"
            /\ i' = i
       ELSE /\ pc' = "clkgen"
            /\ i' = 0
            /\ UNCHANGED <<stderr, exit>>
    /\ UNCHANGED <<buf, xtal, genplls, outplls, clkgens, axigates, stdout, call, ret>>

\* main.rs:137
pllmux == <<outplls[0], outplls[1], outplls[2], outplls[3], xtal>>

\* one turn of the loop of main.rs:160-167
ClkgenStep ==
    /\ pc = "clkgen"
    /\ i < NGATES
    /\ LET row == ClkgenTable[i + 1]
           bypass == row[2]
           ctl == buf[row[3]]
           divctl == Some(buf[row[4]])
           r == clkgen_rate(ctl, divctl, pllmux, bypass)
       IN  IF r.st = "ok"
           THEN /\ clkgens' = [clkgens EXCEPT ![i] = [on |-> r.on, rate |-> r.rate]]
                /\ stderr' = stderr \o r.warn
                /\ i' = i + 1
                /\ pc' = IF i + 1 < NGATES THEN "clkgen" ELSE "axigate"
                /\ exit' = exit
           ELSE /\ Abort(r.st)
                /\ UNCHANGED <<clkgens, stderr, i>>
    /\ UNCHANGED <<buf, xtal, genplls, outplls, axigates, stdout, call, ret>>

\* main.rs:169-195
AxigateLoop ==
    /\ pc = "axigate"
    /\ axigates' = [n \in 0..(Len(AxigateTable) - 1) |->
                       axigate_is_on(buf[AxigateTable[n + 1][2]], AxigateTable[n + 1][3])]
    /\ pc' = "print"
    /\ UNCHANGED <<buf, xtal, i, genplls, outplls, clkgens, stderr, stdout,
                   exit, call, ret>>

\* main.rs:197-208
PrintReport ==
    /\ pc = "print"
    /\ stdout' =
          [n \in 1..NPLLS |-> <<"PLL", n - 1, genplls[n - 1], outplls[n - 1]>>]
          \o [n \in 1..NGATES |->
                <<"clkgen", ClkgenTable[n][1], clkgens[n - 1].rate, clkgens[n - 1].on>>]
          \o [n \in 1..Len(AxigateTable) |->
                <<"axigate", AxigateTable[n][1], axigates[n - 1]>>]
    /\ pc' = "done"
    /\ exit' = "exit0"
    /\ UNCHANGED <<buf, xtal, i, genplls, outplls, clkgens, axigates, stderr, call, ret>>

Next ==
    \/ PllSimpleStep
    \/ PllDitherStep
    \/ SelectOutputs
    \/ GlobalCheck
    \/ ClkgenStep
    \/ AxigateLoop
    \/ PrintReport

Spec == Init /\ [][Next]_vars

\* ------------------------------------------------------------------------
\* The decoding functions called in isolation
\* ------------------------------------------------------------------------

\* 2^32 - 1
U32_MAX == <<2^17 - 1, 2^15 - 1>>

CallRates == {W(1000), W(24 * 1000000), W(48 * 1000000)}

CallSimpleRegions ==
    { SimpleRegion(b0, b4, b8, bc, b10, b1c) :
        b0 \in {0, 75, 255}, b4 \in {0, 1, 2, 254}, b8 \in {0, 1, 3, 65},
        bc \in {0, 3, 8}, b10 \in {0, 1, 16, 17}, b1c \in {0, 2, 128, 227} }

CallDitherRegions ==
    { DitherRegion(b0, b4, b8, bc, b10, b20, b24) :
        b0 \in {0, 50, 255}, b4 \in {0, 1, 2}, b8 \in {0, 1, 3},
        bc \in {0, 1}, b10 \in {0, 1, 16, 17}, b20 \in {0, 1, 255},
        b24 \in {0, 15, 16} }

\* regions of the wrong width
CallMisshapen == { SimpleRegion(0, 0, 1, 0, 0, 0), DitherRegion(0, 0, 1, 0, 0, 0, 0), <<>> }

CallCtls == 0..15 \cup {27, 255}

CallDivctls == {None} \cup { Some(b) : b \in {0, 1, 2, 3, 31, 32, 33, 229} }

CallSources ==
    { << W(1800 * 1000000), W(1000 * 1000000), W0, U32_MAX, W(24 * 1000000) >>,
      << W(7), W(48 * 1000000), W(1), W(500 * 1000000), W(48 * 1000000) >>,
      << W(24 * 1000000), W(24 * 1000000), W(24 * 1000000), W(24 * 1000000) >> }

CallAxiCtls == {0, 16, 165, 255}

\* the calls made: a function and its arguments
Calls ==
    { [fn |-> "pll_simple_rate", buf |-> region, inrate |-> inrate,
       has_outdiv |-> has_outdiv] :
        region \in CallSimpleRegions \cup CallMisshapen, inrate \in CallRates,
        has_outdiv \in BOOLEAN }
    \cup
    { [fn |-> "pll_dither_rate", buf |-> region, inrate |-> inrate] :
        region \in CallDitherRegions \cup CallMisshapen, inrate \in CallRates }
    \cup
    { [fn |-> "clkgen_rate", ctl |-> ctl, divctl |-> divctl, srcs |-> srcs,
       bypass |-> bypass] :
        ctl \in CallCtls, divctl \in CallDivctls, srcs \in CallSources,
        bypass \in BOOLEAN }
    \cup
    { [fn |-> "axigate_is_on", ctl |-> ctl, bit |-> bit] :
        ctl \in CallAxiCtls, bit \in 0..7 }

\* a call is about to be made with arguments drawn from Calls
InitFn ==
    /\ buf = ZeroBuf
    /\ xtal = W(24 * 1000000)
    /\ pc = "pll"
    /\ i = 0
    /\ genplls = [n \in 0..(NPLLS - 1) |-> W0]
    /\ outplls = [n \in 0..(NPLLS - 1) |-> W0]
    /\ clkgens = [n \in 0..(NGATES - 1) |-> [on |-> FALSE, rate |-> W0]]
    /\ axigates = [n \in 0..(Len(AxigateTable) - 1) |-> FALSE]
    /\ stderr = <<>>
    /\ stdout = <<>>
    /\ exit = "none"
    /\ call \in Calls
    /\ ret = NoRet

CallPllSimple ==
    /\ ret = NoRet
    /\ call.fn = "pll_simple_rate"
    /\ ret' = pll_simple_rate(call.buf, call.inrate, call.has_outdiv)
    /\ UNCHANGED <<call, buf, xtal, pc, i, genplls, outplls, clkgens, axigates,
                   stderr, stdout, exit>>

CallPllDither ==
    /\ ret = NoRet
    /\ call.fn = "pll_dither_rate"
    /\ ret' = pll_dither_rate(call.buf, call.inrate)
    /\ UNCHANGED <<call, buf, xtal, pc, i, genplls, outplls, clkgens, axigates,
                   stderr, stdout, exit>>

CallClkgen ==
    /\ ret = NoRet
    /\ call.fn = "clkgen_rate"
    /\ ret' = clkgen_rate(call.ctl, call.divctl, call.srcs, call.bypass)
    /\ UNCHANGED <<call, buf, xtal, pc, i, genplls, outplls, clkgens, axigates,
                   stderr, stdout, exit>>

CallAxigate ==
    /\ ret = NoRet
    /\ call.fn = "axigate_is_on"
    /\ ret' = [st |-> "ok", on |-> axigate_is_on(call.ctl, call.bit)]
    /\ UNCHANGED <<call, buf, xtal, pc, i, genplls, outplls, clkgens, axigates,
                   stderr, stdout, exit>>

FnNext ==
    \/ CallPllSimple
    \/ CallPllDither
    \/ CallClkgen
    \/ CallAxigate

SpecFn == InitFn /\ [][FnNext]_vars

\* ------------------------------------------------------------------------
\* Properties
\* ------------------------------------------------------------------------

\* a PLL decoder was called on a region of its width and the call has ended
SimpleCalled ==
    call.fn = "pll_simple_rate" /\ ret # NoRet /\ Len(call.buf) = SIMPLE_LEN

DitherCalled ==
    call.fn = "pll_dither_rate" /\ ret # NoRet /\ Len(call.buf) = DITHER_LEN

ClkgenCalled == call.fn = "clkgen_rate" /\ ret # NoRet

\* the fields of a PLL region as the register layout gives them
FieldP(region) == At(region, 8) % 64

FieldS(region) == At(region, 12) % 8

FieldBypass(region) == (At(region, 16) \div 16) % 2 = 1

FieldReset(region) == At(region, 16) % 2 = 1

FieldM9(region) == At(region, 0) + 256 * (At(region, 4) % 2)

FieldM10(region) == At(region, 0) + 256 * (At(region, 4) % 4)

FieldK(region) == At(region, 32) + 256 * (At(region, 36) % 16)

FieldOutdiv(region) == At(region, 28) % 32

FieldOutBypass(region) == At(region, 28) >= 128

\* neither bypassed nor held in reset
Running(region) == ~FieldBypass(region) /\ ~FieldReset(region)

\* floor(inrate * mult / (p * 2^s)), for p > 0
Quotient(region, inrate, mult) ==
    WDiv(WMul(inrate, mult), FieldP(region) * (2^FieldS(region)))

\* the call of pll_simple_rate divides by the output divider
SecondStage == call.has_outdiv /\ ~FieldOutBypass(call.buf)

\* --- C1 -----------------------------------------------------------------
\* C1: when bit 0 of the global control byte (offset 0x34) is set, the run
\* is aborted by the global check before any PLL decoder is called: the run
\* is either still before its first PLL decode or has exited through the
\* check.
C1_GlobalCheckBeforeDecode ==
    Bit(buf[OFF_GLOBAL], 0) => (pc = "pll" /\ i = 0) \/ pc = "exited"

\* --- C2 -----------------------------------------------------------------
\* C2: the dithering PLL decoder rounds half up: with
\* q = floor(inrate * (m*1024 + k) / (p * 2^s)) a returned rate is
\* floor((q + 512) / 1024).
C2_RoundHalfUp ==
    (DitherCalled /\ Running(call.buf) /\ FieldP(call.buf) > 0 /\ ret.st = "ok") =>
        LET q == Quotient(call.buf, call.inrate,
                          FieldM9(call.buf) * 1024 + FieldK(call.buf))
        IN  ret.rate = WDiv(WAdd(q, 512), 1024)

\* --- C3 -----------------------------------------------------------------
\* C3: no call of a PLL decoder ends in a division-by-zero panic.
C3_NoDivideByZeroPanic ==
    (SimpleCalled \/ DitherCalled) => ret.st # "divzero"

\* --- C4 -----------------------------------------------------------------
\* C4: for both PLL decoders, a set bypass bit makes the result the input
\* rate whatever the other fields are, and otherwise a set reset bit makes
\* the result 0.
C4_BypassResetPriority ==
    (SimpleCalled \/ DitherCalled) =>
        /\ FieldBypass(call.buf) => ret = Ok(call.inrate)
        /\ (~FieldBypass(call.buf) /\ FieldReset(call.buf)) => ret = Ok(W0)

\* bypass and reset both set, p = 0, output divider 0 and not bypassed
C4_Witness ==
    /\ SimpleCalled
    /\ At(call.buf, 16) = 17
    /\ FieldP(call.buf) = 0
    /\ call.has_outdiv /\ At(call.buf, 28) = 0
    /\ call.inrate = W(24 * 1000000)
    /\ ret = Ok(W(24 * 1000000))

\* --- C5 -----------------------------------------------------------------
\* C5: the simple PLL decoder never returns a wrapped rate: for a running
\* region with p > 0 and v = floor(inrate * m / (p * 2^s)), the call panics
\* with an overflow exactly when v does not fit 32 bits, and when v fits
\* and no output divider stage applies the result is v.
C5_NoWrappedRate ==
    (SimpleCalled /\ Running(call.buf) /\ FieldP(call.buf) > 0) =>
        LET v == Quotient(call.buf, call.inrate, FieldM10(call.buf))
        IN  /\ ~FitsU32(v) <=> ret = Panic("overflow")
            /\ (FitsU32(v) /\ ~SecondStage) => ret = Ok(v)

\* m = 256, p = 1, s = 0 at 24 MHz: 6,144,000,000 Hz does not fit
C5_Witness ==
    /\ SimpleCalled /\ Running(call.buf)
    /\ FieldM10(call.buf) = 256 /\ FieldP(call.buf) = 1 /\ FieldS(call.buf) = 0
    /\ call.inrate = W(24 * 1000000)
    /\ ~call.has_outdiv
    /\ ret.st = "overflow"

\* --- C6 -----------------------------------------------------------------
\* C6: clkgen_rate never divides by zero; called with a divider byte and no
\* static bypass, a divider value of 0 or 1 gives rate 0, on = bit 0 of ctl,
\* and the divider warning.
C6_SmallDividerGivesZero ==
    ClkgenCalled =>
        /\ ret.st = "ok"
        /\ (call.divctl.some /\ ~call.bypass /\ call.divctl.v % 32 < 2) =>
              /\ ret.rate = W0
              /\ ret.on = (call.ctl % 2 = 1)
              /\ Len(ret.warn) > 0 /\ ret.warn[Len(ret.warn)] = WarnDiv

\* divider byte 33 (value 1) on a gate whose source runs at 1000 MHz
C6_Witness ==
    /\ ClkgenCalled
    /\ call.divctl = Some(33) /\ ~call.bypass
    /\ call.ctl = 3
    /\ call.srcs[2] = W(1000 * 1000000)
    /\ ret.rate = W0 /\ ret.on

\* --- C7 -----------------------------------------------------------------
\* C7: a gate whose mux field is 5, 6 or 7 has input rate 0: its decode
\* does not fail, gives rate 0 with or without a divider byte and with or
\* without static bypass, the rate main() records for it is 0 with the mux
\* warning on stderr, and the loop goes on to the next gate.
GateCtl(g) == buf[ClkgenTable[g + 1][3]]

GateDiv(g) == buf[ClkgenTable[g + 1][4]] % 32

GateMux(g) == (GateCtl(g) \div 2) % 8

GateDecoded(g) ==
    (pc = "clkgen" /\ g < i) \/ pc \in {"axigate", "print", "done"}

C7_MuxOutOfRangeIsZero ==
    \A g \in 0..(NGATES - 1) :
        GateMux(g) >= 5 =>
            /\ (pc = "clkgen" /\ i = g) =>
                  /\ \A d \in CallDivctls \cup {Some(buf[ClkgenTable[g + 1][4]])},
                        b \in BOOLEAN :
                        LET r == clkgen_rate(GateCtl(g), d, pllmux, b)
                        IN  r.st = "ok" /\ r.rate = W0
                  /\ ENABLED ClkgenStep
            /\ GateDecoded(g) =>
                  /\ clkgens[g].rate = W0
                  /\ clkgens[g].on = (GateCtl(g) % 2 = 1)
                  /\ \E n \in 1..Len(stderr) : stderr[n] = WarnMux(GateMux(g))

\* a finished run in which gate 10 had mux 5 and gate 16, decoded after
\* it, reports a non-zero rate
C7_Witness ==
    /\ pc = "done" /\ exit = "exit0"
    /\ GateMux(10) = 5 /\ clkgens[10].rate = W0
    /\ GateMux(16) = 0 /\ clkgens[16].rate # W0
    /\ Len(stdout) = 44

\* --- C8 -----------------------------------------------------------------
\* C8: once the outputs are selected, output slot n is the crystal rate if
\* bit n of the mask byte (offset 0x38) is set and the generated rate of
\* slot n otherwise.
OutputsSelected == pc \in {"check", "clkgen", "axigate", "print", "done", "exited"}

C8_OutputSelector ==
    OutputsSelected =>
        \A n \in 0..3 :
            outplls[n] = IF (buf[OFF_PLLMASK] \div (2^n)) % 2 = 1
                         THEN xtal ELSE genplls[n]

\* mask 0xfa: slots 1 and 3 take the crystal rate, slots 0 and 2 keep
\* generated rates that differ from it
C8_Witness ==
    /\ pc = "check"
    /\ buf[OFF_PLLMASK] = 250
    /\ genplls[1] # xtal /\ outplls[1] = xtal
    /\ outplls[0] = genplls[0] /\ genplls[0] # xtal
    /\ outplls[2] = genplls[2] /\ genplls[2] = W0

\* --- C9 -----------------------------------------------------------------
\* C9: with the bypass bit set in the control byte of all four PLL regions,
\* the global bypass bit clear and a 24 MHz crystal, the run neither panics
\* nor exits early, all generated and output rates are 24,000,000 Hz, and a
\* decoded gate with mux 0..4 and divider >= 2 reports 24,000,000 / divider.
AllPllsBypassed ==
    /\ \A n \in 0..2 : (buf[OFF_PLL0 + n * SIMPLE_LEN + 16] \div 16) % 2 = 1
    /\ (buf[OFF_PLL3 + 16] \div 16) % 2 = 1
    /\ buf[OFF_GLOBAL] % 2 = 0
    /\ xtal = W(24 * 1000000)

C9_AllBypassedEndToEnd ==
    AllPllsBypassed =>
        /\ pc \notin {"panic", "exited"}
        /\ ENABLED Next \/ pc = "done"
        /\ \A n \in 0..3 :
              /\ (pc = "pll" /\ n < i) \/ (pc = "dither" /\ n < 3)
                    \/ pc \notin {"pll", "dither"}
                    => genplls[n] = W(24 * 1000000)
              /\ OutputsSelected => outplls[n] = W(24 * 1000000)
        /\ \A g \in 0..(NGATES - 1) :
              (GateDecoded(g) /\ GateMux(g) <= 4 /\ GateDiv(g) >= 2) =>
                  clkgens[g].rate = WDiv(W(24 * 1000000), GateDiv(g))

\* a finished all-bypassed run in which gate 7 (mux 3, divider 7) reports
\* 3,428,571 Hz
C9_Witness ==
    /\ AllPllsBypassed
    /\ pc = "done" /\ exit = "exit0"
    /\ GateMux(7) = 3 /\ GateDiv(7) = 7
    /\ clkgens[7].rate = W(3428571)

\* --- C10 ----------------------------------------------------------------
\* the rate a running simple PLL gives for multiplier mult, first stage and
\* output divider stage
SimpleRateFor(mult) ==
    LET v == Quotient(call.buf, call.inrate, mult)
    IN  IF SecondStage THEN WDiv(v, FieldOutdiv(call.buf)) ELSE v

\* C10 as stated: the multiplier of the simple PLL is the 9-bit field of
\* byte 0 and bit 0 of byte 4, so a returned rate is
\* floor(inrate * m / (p * 2^s)) with that m.
C10_NineBitMultiplier ==
    (SimpleCalled /\ Running(call.buf) /\ ret.st = "ok") =>
        ret.rate = SimpleRateFor(FieldM9(call.buf))

\* C10 amended: the multiplier of the simple PLL is the 10-bit field of
\* byte 0 and bits 0..1 of byte 4; a returned rate is
\* floor(inrate * m / (p * 2^s)) with that m (divided by the output divider
\* where that stage applies), so no bit of byte 4 above bit 1 changes it.
C10_TenBitMultiplier ==
    (SimpleCalled /\ Running(call.buf) /\ ret.st = "ok") =>
        ret.rate = SimpleRateFor(FieldM10(call.buf))

\* byte 4 = 0xfe: bit 1 set and counted, bits 2..7 set and ignored;
\* m = 512 + 75, p = 3, s = 3 at 24 MHz gives 587,000,000 Hz
C10_Witness ==
    /\ SimpleCalled /\ Running(call.buf)
    /\ At(call.buf, 4) = 254 /\ At(call.buf, 0) = 75
    /\ FieldP(call.buf) = 3 /\ FieldS(call.buf) = 3
    /\ call.inrate = W(24 * 1000000)
    /\ ~call.has_outdiv
    /\ ret = Ok(W(587 * 1000000))

====
